---- MODULE Spec2Model ----
(***************************************************************************)
(* State-machine model of the sun widget library: the button interaction   *)
(* model with its views, the on/off switch and the combo box.              *)
(*                                                                         *)
(* The specifications share the variables; each one drives one widget     *)
(* and leaves the other widgets in their constructed state:                *)
(*   ButtonSpec - a push or toggle button (ButtonModel + view + a11y)      *)
(*   WidgetSpec - a push, toggle or sticky toggle button and its disposal  *)
(*   SwitchSpec - OnOffSwitch.js                                           *)
(*   ComboSpec  - two ComboBox instances on one display                    *)
(*   LayoutSpec - the combo boxes under layout changes and disposal        *)
(*   ConstructionSpec - the combo boxes from their construction on         *)
(*   SelectionSpec - the combo boxes with their properties set from        *)
(*                   outside and with enabledProperty changing             *)
(***************************************************************************)
EXTENDS Integers, Sequences, FiniteSets, TLC

\* ---------------------------------------------------------------------------
\* Bounds
\* ---------------------------------------------------------------------------
MaxPointers == 2      \* pointers that can be over a button at the same time
MaxFires == 3         \* fires counted per behaviour
DragStep == 10        \* granularity of the pointer movements of a drag
MaxDragSteps == 3     \* a movement is at most MaxDragSteps * DragStep wide
MaxChanges == 3       \* changes of the switch's property counted per press
MaxOrigin == 1        \* the layout puts a combo box at MaxOrigin + 1 places

VARIABLES
  \* ---- button ----
  kind,               \* "push" (PushButtonModel), "toggle" (ToggleButtonModel)
                      \* or "sticky" (StickyToggleButtonModel)
  fireOnDown,         \* option fireOnDown, fixed at construction
  overCount,          \* ButtonModel.overCount
  overProperty,       \* ButtonModel.overProperty
  down,               \* ButtonModel.downProperty
  enabled,            \* ButtonModel.enabledProperty
  interactionState,   \* the derived InteractionStateProperty
  toggleProperty,     \* the cell bound to a toggle button
  toggleInit,         \* history: the value the cell held at construction
  fireCount,          \* history: completed fires
  lastEvent,          \* history: the event handled last
  firedNow,           \* history: fires invoked by the event handled last
  downBefore,         \* history: downProperty before the event handled last
  enabledBefore,      \* history: enabledProperty before that event
  stateBefore,        \* history: the interaction state before that event
  valueBefore,        \* history: the cell's value before that event
  stateAtFire,        \* history: the interaction state the fire action of that
                      \* event saw, "none" if it did not fire
  thrown,             \* history: the fire action of that event threw
  updatesNow,         \* history: runs of the view's listeners in that event
  strategy,           \* the view and its background strategy
  stroke,             \* options.stroke
  appearance,         \* fills, strokes and content opacity of the view's nodes
  appliedState,       \* the interaction state the view's listeners ran for last
  modelDisposed,      \* the button model is disposed
  viewDisposed,       \* the view is disposed
  \* ---- on/off switch ----
  toggleWhileDragging,  \* option toggleWhileDragging
  onProperty,           \* the boolean property the switch is bound to
  thumbLeft,            \* thumbNode.left
  trackFill,            \* trackNode.fill: "on" (trackOnFill) or "off"
  dragged,              \* var dragged
  thumbCrossedMidpoint, \* the drag handler's thumbCrossedMidpoint
  dragging,             \* SimpleDragHandler: a drag of the thumb is in progress
  buttonState,          \* ButtonListener on the node: "up", "over", "down", "out"
  pointerListeners,     \* listeners attached to the pressed pointer, in order
  pointerType,          \* "mouse" or "touch": the pointer of the current press
  preValue,             \* history: onProperty when the current press began
  everOffSide,          \* history: a drag step left the thumb on the other side
  thumbMoved,           \* history: the thumb was dragged during this press
  changes,              \* history: changes of onProperty since the press began
  releaseSide,          \* history: the value the thumb position had at release
  releasedOver,         \* history: the pointer was over the node at release
  swLast,               \* history: the step taken last
  \* ---- combo boxes (one entry per combo box of the display) ----
  listVisible,          \* listNode.visible
  enableClickToDismissListener,  \* var enableClickToDismissListener
  focusedItem,          \* this.focusedItem: 0 (null) or an index into the list
  property,             \* the property the combo box is bound to
  displayListeners,     \* the display's input listeners: dismiss listeners by owner
  focus,                \* the element that has keyboard focus
  listLeft,             \* listNode.left, in the coordinates of listParent
  listTop,              \* listNode.top, in the coordinates of listParent
  origin,               \* where the layout has put the combo box (global)
  disposed,             \* dispose() was called
  propertyLinked,       \* propertyObserver is linked to the property
  enabledLinked,        \* enabledObserver is linked to enabledProperty
  ignoredDowns,         \* history: downs the dismiss listener let pass since
                        \* the popup opened
  cbBefore,             \* history: the state before the input handled last
  cbLast,               \* history: the input handled last
  assertionsEnabled,    \* the build has assertions enabled (assert is defined)
  constructed,          \* the constructor of the combo box has returned
  rejected,             \* the constructor call made last for it threw
  opacityAsked,         \* options.disabledOpacity of that call, in tenths
  buttonItem,           \* the item the button displays (0 before construction)
  comboEnabled,         \* this.enabledProperty
  pickable,             \* self.pickable
  comboOpacity,         \* self.opacity, in tenths
  seenAtChange          \* history: what the property's observers saw when
                        \* the input handled last changed a property

buttonVars == <<kind, fireOnDown, overCount, down, enabled, interactionState,
                toggleProperty, toggleInit, fireCount, lastEvent, firedNow,
                downBefore, overProperty, enabledBefore, stateBefore,
                valueBefore, stateAtFire, thrown, updatesNow, strategy, stroke,
                appearance, appliedState, modelDisposed, viewDisposed>>

switchVars == <<toggleWhileDragging, onProperty, thumbLeft, trackFill, dragged,
                thumbCrossedMidpoint, dragging, buttonState, pointerListeners,
                pointerType, preValue, everOffSide, thumbMoved, changes,
                releaseSide, releasedOver, swLast>>

comboVars == <<listVisible, enableClickToDismissListener, focusedItem, property,
               displayListeners, focus, listLeft, listTop, origin, disposed,
               propertyLinked, enabledLinked, ignoredDowns, cbBefore, cbLast,
               assertionsEnabled, constructed, rejected, opacityAsked,
               buttonItem, comboEnabled, pickable, comboOpacity, seenAtChange>>

vars == <<buttonVars, switchVars, comboVars>>

\* ---------------------------------------------------------------------------
\* Button: ButtonModel, its derived interaction state, the views' enabled
\* setter and the accessible click listener
\* ---------------------------------------------------------------------------
InteractionStates == {"idle", "over", "pressed", "disabled", "disabled-pressed"}

ValueOff == "valueOff"
ValueOn == "valueOn"

\* a sticky toggle button calls the two values of its cell valueUp, valueDown
ValueUp == ValueOff
ValueDown == ValueOn

PointerEvents == {"enter", "exit", "down", "up"}

Kinds == {"push", "toggle", "sticky"}

\* the views: RoundButtonView, and RectangularButtonView with one of its two
\* stock background strategies
Strategies == {"round", "threeD", "flat"}

\* options.stroke: a colour, or null
Strokes == {"stroke", "none"}

\* over, as the model holds it
Over == overProperty

\* mutant: an over flag that holds for a single pointer only
OverForSinglePointer(count) == count = 1

\* over := overCount > 0
OverFor(count) == count > 0

\* mutant: a derivation that shows a hovered button as pressed
InteractionStatePressedWhenOver(over, isDown, isEnabled) ==
  IF ~isEnabled /\ isDown THEN "disabled-pressed"
  ELSE IF ~isEnabled THEN "disabled"
  ELSE IF isDown \/ over THEN "pressed"
  ELSE "idle"

\* mutant: a derivation that has no disabled-pressed state
InteractionStateWithoutDisabledPressed(over, isDown, isEnabled) ==
  IF ~isEnabled THEN "disabled"
  ELSE IF isDown THEN "pressed"
  ELSE IF over THEN "over"
  ELSE "idle"

\* the derivation of the interaction state from {over, down, enabled}
InteractionStateOf(over, isDown, isEnabled) ==
  IF ~isEnabled /\ isDown THEN "disabled-pressed"
  ELSE IF ~isEnabled THEN "disabled"
  ELSE IF isDown THEN "pressed"
  ELSE IF over THEN "over"
  ELSE "idle"

\* mutant: a derivation that does not look at the cell
PressedEquivalentNever(k, value) == FALSE

\* the cell of a sticky toggle button holds the pressed-equivalent value
PressedEquivalent(k, value) == k = "sticky" /\ value = ValueDown

\* the interaction state of a button of kind k: down counts as true while the
\* cell holds the pressed-equivalent value
Derive(k, over, isDown, isEnabled, value) ==
  InteractionStateOf(over, isDown \/ PressedEquivalent(k, value), isEnabled)

\* mutant: a toggle that always writes valueOn
ToggleStuckOn(value) == ValueOn

\* ToggleButtonModel: the value the cell is not currently holding
Toggle(value) == IF value = ValueOff THEN ValueOn ELSE ValueOff

\* ---- the views ----

\* disabledStroke (RectangularButtonView) and lightenedStroke (RoundButtonView)
\* are null when options.stroke is null
DisabledStroke(st) == IF st = "none" THEN "none" ELSE "disabledStroke"
LightenedStroke(st) == IF st = "none" THEN "none" ELSE "lightenedStroke"

\* the nodes as the view's constructor creates them, before the strategies
\* are linked to the interaction state; opacities are in tenths
InitialAppearance(s, st) ==
  [backgroundFill |-> "baseColor",
   backgroundStroke |-> "none",
   overlayFill |-> IF s = "flat" THEN "none" ELSE "baseColor",
   overlayStroke |-> IF s = "flat" THEN "none" ELSE st,
   contentOpacity |-> 10]

\* ThreeDAppearanceStrategy: the listener linked to the interaction state
ThreeDAppearance(a, st, state) ==
  CASE state = "idle" ->
         [a EXCEPT !.backgroundFill = "upFillVertical",
                   !.overlayStroke = st,
                   !.overlayFill = "upFillHorizontal"]
    [] state = "over" ->
         [a EXCEPT !.backgroundFill = "overFillVertical",
                   !.overlayStroke = st,
                   !.overlayFill = "overFillHorizontal"]
    [] state = "pressed" ->
         [a EXCEPT !.backgroundFill = "downFill",
                   !.overlayStroke = st,
                   !.overlayFill = "overFillHorizontal"]
    [] state = "disabled" ->
         [a EXCEPT !.backgroundFill = "disabledFillVertical",
                   !.backgroundStroke = DisabledStroke(st),
                   !.overlayStroke = DisabledStroke(st),
                   !.overlayFill = "disabledFillHorizontal"]
    [] state = "disabled-pressed" ->
         [a EXCEPT !.backgroundFill = "disabledPressedFillVertical",
                   !.backgroundStroke = DisabledStroke(st),
                   !.overlayStroke = DisabledStroke(st),
                   !.overlayFill = "disabledFillHorizontal"]

\* FlatAppearanceStrategy; disabledPressedFillVertical is disabledFill
FlatAppearance(a, st, state) ==
  CASE state = "idle" ->
         [a EXCEPT !.backgroundFill = "upFill", !.backgroundStroke = st]
    [] state = "over" ->
         [a EXCEPT !.backgroundFill = "overFill", !.backgroundStroke = st]
    [] state = "pressed" ->
         [a EXCEPT !.backgroundFill = "downFill", !.backgroundStroke = st]
    [] state = "disabled" ->
         [a EXCEPT !.backgroundFill = "disabledFill",
                   !.backgroundStroke = DisabledStroke(st)]
    [] state = "disabled-pressed" ->
         [a EXCEPT !.backgroundFill = "disabledFill",
                   !.backgroundStroke = DisabledStroke(st)]

\* FadeContentWhenDisabled
FadeContentWhenDisabled(a, state) ==
  [a EXCEPT !.contentOpacity =
     IF state = "disabled" \/ state = "disabled-pressed" THEN 3 ELSE 10]

\* RoundButtonView: the listener linked to the interaction state
RoundAppearance(a, st, state) ==
  CASE state = "idle" ->
         [a EXCEPT !.contentOpacity = 10,
                   !.backgroundFill = "upFillHighlight",
                   !.overlayStroke = st,
                   !.overlayFill = "upFillShadow"]
    [] state = "over" ->
         [a EXCEPT !.contentOpacity = 10,
                   !.backgroundFill = "overFillHighlight",
                   !.overlayStroke = st,
                   !.overlayFill = "overFillShadow"]
    [] state = "pressed" ->
         [a EXCEPT !.contentOpacity = 10,
                   !.backgroundFill = "pressedFill",
                   !.overlayStroke = st,
                   !.overlayFill = "overFillShadow"]
    [] state = "disabled" ->
         [a EXCEPT !.contentOpacity = 3,
                   !.backgroundFill = "disabledFillHighlight",
                   !.overlayStroke = LightenedStroke(st),
                   !.overlayFill = "disabledFillShadow"]
    [] state = "disabled-pressed" ->
         [a EXCEPT !.contentOpacity = 3,
                   !.backgroundFill = "disabledPressedFillHighlight",
                   !.overlayStroke = LightenedStroke(st),
                   !.overlayFill = "disabledFillShadow"]

\* all the listeners a view has linked to the interaction state
ApplyAppearance(s, st, a, state) ==
  CASE s = "threeD" -> FadeContentWhenDisabled(ThreeDAppearance(a, st, state), state)
    [] s = "flat" -> FadeContentWhenDisabled(FlatAppearance(a, st, state), state)
    [] s = "round" -> RoundAppearance(a, st, state)

\* mutant: listeners that are told of every set, changed or not
NotifiedAlways(old, new) == TRUE

\* the interaction state notifies its listeners when its value changes
Notified(old, new) == old # new

\* The event has set the flags; the interaction state went to mid before the
\* fire action ran and is final when the event returns.  The view's listeners
\* ran at each of the two changes.
Observed(mid, final) ==
  LET a1 == IF Notified(interactionState, mid)
            THEN ApplyAppearance(strategy, stroke, appearance, mid)
            ELSE appearance
      a2 == IF Notified(mid, final)
            THEN ApplyAppearance(strategy, stroke, a1, final)
            ELSE a1
  IN /\ interactionState' = final
     /\ appearance' = a2
     /\ appliedState' = IF Notified(mid, final) THEN final
                        ELSE IF Notified(interactionState, mid) THEN mid
                        ELSE appliedState
     /\ updatesNow' = (IF Notified(interactionState, mid) THEN 1 ELSE 0)
                      + (IF Notified(mid, final) THEN 1 ELSE 0)
     /\ stateAtFire' = IF firedNow' = 1 THEN mid ELSE "none"

\* what every event records and leaves alone
Recorded(event) ==
  /\ lastEvent' = event
  /\ downBefore' = down
  /\ enabledBefore' = enabled
  /\ stateBefore' = interactionState
  /\ valueBefore' = toggleProperty
  /\ UNCHANGED <<kind, fireOnDown, toggleInit, strategy, stroke>>

\* ---- the model ----

\* the fire action: listeners run once; a toggle model toggles its cell
Fire ==
  /\ fireCount < MaxFires
  /\ fireCount' = fireCount + 1
  /\ firedNow' = 1
  /\ toggleProperty' = IF kind \in {"toggle", "sticky"} THEN Toggle(toggleProperty)
                       ELSE toggleProperty

NoFire ==
  /\ firedNow' = 0
  /\ UNCHANGED <<fireCount, toggleProperty>>

\* pointerEnter(): one more pointer over the button
PointerEnter ==
  /\ ~viewDisposed
  /\ overCount < MaxPointers
  /\ overCount' = overCount + 1
  /\ overProperty' = OverFor(overCount')
  /\ NoFire
  /\ thrown' = FALSE
  /\ LET state == Derive(kind, overProperty', down, enabled, toggleProperty)
     IN Observed(state, state)
  /\ Recorded("enter")
  /\ UNCHANGED <<down, enabled, modelDisposed, viewDisposed>>

\* pointerExit(): one pointer less over the button, never below zero
PointerExit ==
  /\ ~viewDisposed
  /\ overCount' = IF overCount > 0 THEN overCount - 1 ELSE 0
  /\ overProperty' = OverFor(overCount')
  /\ NoFire
  /\ thrown' = FALSE
  /\ LET state == Derive(kind, overProperty', down, enabled, toggleProperty)
     IN Observed(state, state)
  /\ Recorded("exit")
  /\ UNCHANGED <<down, enabled, modelDisposed, viewDisposed>>

\* mutant: a press that never fires
NeverFiresOnDown == FALSE

\* does pointerDown() invoke the fire action?
FiresOnDown == fireOnDown /\ enabled

\* mutant: a press that sets down only when the fire action has returned
DownAfterPressUnlessThrown(throws) == IF throws THEN down ELSE TRUE

\* pointerDown() sets down before it invokes the fire action
DownAfterPress(throws) == TRUE

\* pointerDown(): down = true, fire if fireOnDown and enabled; the fire action
\* may throw
PointerDown ==
  \E throws \in BOOLEAN :
    /\ ~viewDisposed
    /\ throws => (FiresOnDown /\ ~modelDisposed)
    /\ down' = DownAfterPress(throws)
    /\ IF FiresOnDown /\ ~modelDisposed THEN Fire ELSE NoFire
    /\ thrown' = throws
    /\ Observed(Derive(kind, Over, down', enabled, toggleProperty),
                Derive(kind, Over, down', enabled, toggleProperty'))
    /\ Recorded("down")
    /\ UNCHANGED <<overCount, overProperty, enabled, modelDisposed, viewDisposed>>

\* mutant: a release that fires wherever the pointer is
FiresOnUpIgnoringOver == ~fireOnDown /\ enabled

\* does pointerUp() invoke the fire action?
FiresOnUp == ~fireOnDown /\ enabled /\ Over

\* pointerUp(): down = false, fire if not fireOnDown, enabled and over; the
\* fire action may throw
PointerUp ==
  \E throws \in BOOLEAN :
    /\ ~viewDisposed
    /\ throws => (FiresOnUp /\ ~modelDisposed)
    /\ down' = FALSE
    /\ IF FiresOnUp /\ ~modelDisposed THEN Fire ELSE NoFire
    /\ thrown' = throws
    /\ Observed(Derive(kind, Over, FALSE, enabled, toggleProperty),
                Derive(kind, Over, FALSE, enabled, toggleProperty'))
    /\ Recorded("up")
    /\ UNCHANGED <<overCount, overProperty, enabled, modelDisposed, viewDisposed>>

\* mutant: a setter that cancels the press when it disables the button
SetEnabledCancelsPress(value) ==
  /\ ~viewDisposed /\ ~modelDisposed
  /\ enabled' = value
  /\ down' = (down /\ value)
  /\ NoFire
  /\ thrown' = FALSE
  /\ LET state == Derive(kind, Over, down', value, toggleProperty)
     IN Observed(state, state)
  /\ Recorded("setEnabled")
  /\ UNCHANGED <<overCount, overProperty, modelDisposed, viewDisposed>>

\* the views' enabled setter: this.buttonModel.enabled = value
SetEnabled(value) ==
  /\ ~viewDisposed /\ ~modelDisposed
  /\ enabled' = value
  /\ NoFire
  /\ thrown' = FALSE
  /\ LET state == Derive(kind, Over, down, value, toggleProperty)
     IN Observed(state, state)
  /\ Recorded("setEnabled")
  /\ UNCHANGED <<overCount, overProperty, down, modelDisposed, viewDisposed>>

\* mutant: an accessible click listener without the enabled test
ClickReachesModelAlways == TRUE

\* clickListener.click: if ( self.enabled ) { buttonModel.a11yClick( ... ) }
ClickReachesModel == enabled

\* a click from assistive technology on a round push button
A11yClick ==
  /\ kind = "push" /\ strategy = "round"
  /\ ~viewDisposed
  /\ IF ClickReachesModel THEN Fire ELSE NoFire
  /\ thrown' = FALSE
  /\ Observed(interactionState, interactionState)
  /\ Recorded("a11yClick")
  /\ UNCHANGED <<overCount, overProperty, down, enabled, modelDisposed,
                 viewDisposed>>

\* clickListener.focus: self.buttonModel.overProperty.value = true
A11yFocus ==
  /\ kind = "push" /\ strategy = "round"
  /\ ~viewDisposed
  /\ overProperty' = TRUE
  /\ NoFire
  /\ thrown' = FALSE
  /\ LET state == Derive(kind, TRUE, down, enabled, toggleProperty)
     IN Observed(state, state)
  /\ Recorded("a11yFocus")
  /\ UNCHANGED <<overCount, down, enabled, modelDisposed, viewDisposed>>

\* clickListener.blur: self.buttonModel.a11yBlur(), which may clear over
A11yBlur ==
  \E over \in {FALSE, overProperty} :
    /\ kind = "push" /\ strategy = "round"
    /\ ~viewDisposed
    /\ overProperty' = over
    /\ NoFire
    /\ thrown' = FALSE
    /\ LET state == Derive(kind, over, down, enabled, toggleProperty)
       IN Observed(state, state)
    /\ Recorded("a11yBlur")
    /\ UNCHANGED <<overCount, down, enabled, modelDisposed, viewDisposed>>

\* RoundPushButton.dispose and RoundStickyToggleButton.dispose dispose the
\* model and then the view; RoundToggleButton.dispose disposes the model and
\* does not go on to the view's dispose; RectangularToggleButton has no
\* dispose of its own, so that the view's dispose is all that runs
DisposesModel(k, s) == s = "round"
DisposesView(k, s) == ~(k = "toggle" /\ s = "round")

\* dispose() of RoundPushButton, RoundToggleButton, RoundStickyToggleButton
\* or RectangularToggleButton
DisposeButton ==
  /\ strategy = "round" \/ kind = "toggle"
  /\ ~modelDisposed /\ ~viewDisposed
  /\ modelDisposed' = DisposesModel(kind, strategy)
  /\ viewDisposed' = DisposesView(kind, strategy)
  /\ NoFire
  /\ thrown' = FALSE
  /\ Observed(interactionState, interactionState)
  /\ Recorded("dispose")
  /\ UNCHANGED <<overCount, overProperty, down, enabled>>

ButtonViewConstructed(k, fod, value, s, st) ==
  /\ kind = k
  /\ fireOnDown = fod
  /\ overCount = 0
  /\ overProperty = FALSE
  /\ down = FALSE
  /\ enabled = TRUE
  /\ interactionState = Derive(k, FALSE, FALSE, TRUE, value)
  /\ toggleProperty = value
  /\ toggleInit = value
  /\ fireCount = 0
  /\ lastEvent = "none"
  /\ firedNow = 0
  /\ downBefore = FALSE
  /\ strategy = s
  /\ stroke = st
  /\ appearance = ApplyAppearance(s, st, InitialAppearance(s, st),
                                  Derive(k, FALSE, FALSE, TRUE, value))
  /\ appliedState = Derive(k, FALSE, FALSE, TRUE, value)
  /\ updatesNow = 1
  /\ enabledBefore = TRUE
  /\ stateBefore = Derive(k, FALSE, FALSE, TRUE, value)
  /\ valueBefore = value
  /\ stateAtFire = "none"
  /\ thrown = FALSE
  /\ modelDisposed = FALSE
  /\ viewDisposed = FALSE

ButtonConstructed(k, fod, value) ==
  ButtonViewConstructed(k, fod, value, "round", "none")

ButtonInit ==
  \E k \in {"push", "toggle"}, fod \in BOOLEAN, value \in {ValueOff, ValueOn},
     s \in Strategies, st \in Strokes :
    ButtonViewConstructed(k, fod, value, s, st)

\* buttons of all the kinds; a sticky toggle decides its value at release
WidgetInit ==
  \E k \in Kinds, fod \in BOOLEAN, value \in {ValueOff, ValueOn},
     s \in Strategies, st \in Strokes :
    /\ k = "sticky" => ~fod
    /\ ButtonViewConstructed(k, fod, value, s, st)

ButtonNext ==
  \/ PointerEnter /\ UNCHANGED <<switchVars, comboVars>>
  \/ PointerExit /\ UNCHANGED <<switchVars, comboVars>>
  \/ PointerDown /\ UNCHANGED <<switchVars, comboVars>>
  \/ PointerUp /\ UNCHANGED <<switchVars, comboVars>>
  \/ \E value \in BOOLEAN : SetEnabled(value) /\ UNCHANGED <<switchVars, comboVars>>
  \/ A11yClick /\ UNCHANGED <<switchVars, comboVars>>
  \/ A11yFocus /\ UNCHANGED <<switchVars, comboVars>>
  \/ A11yBlur /\ UNCHANGED <<switchVars, comboVars>>

\* the buttons with their disposal
WidgetNext ==
  \/ PointerEnter /\ UNCHANGED <<switchVars, comboVars>>
  \/ PointerExit /\ UNCHANGED <<switchVars, comboVars>>
  \/ PointerDown /\ UNCHANGED <<switchVars, comboVars>>
  \/ PointerUp /\ UNCHANGED <<switchVars, comboVars>>
  \/ \E value \in BOOLEAN : SetEnabled(value) /\ UNCHANGED <<switchVars, comboVars>>
  \/ DisposeButton /\ UNCHANGED <<switchVars, comboVars>>

\* ---------------------------------------------------------------------------
\* On/off switch (OnOffSwitch.js).  Lengths are in the units of options.size;
\* the strokes' contribution to the bounds is left out.
\* ---------------------------------------------------------------------------
TrackWidth == 60                    \* options.size.width
ThumbWidth == TrackWidth \div 2     \* 0.5 * options.size.width

DragDeltas == {k * DragStep : k \in (-MaxDragSteps)..MaxDragSteps}

\* the callbacks of the switch work on this part of the state
SwitchState ==
  [on |-> onProperty, left |-> thumbLeft, fill |-> trackFill,
   dragged |-> dragged, crossed |-> thumbCrossedMidpoint, changes |-> changes]

\* thumbPositionToValue: thumbNode.centerX > trackNode.centerX
ThumbPositionToValue(left) == 2 * left + ThumbWidth > TrackWidth

\* updateThumb: move the thumb to the on or off position
UpdateThumb(s, on) ==
  IF on THEN [s EXCEPT !.left = TrackWidth - ThumbWidth, !.fill = "on"]
  ELSE [s EXCEPT !.left = 0, !.fill = "off"]

\* onProperty.set: observers (updateThumb) run only when the value changes
SetOnProperty(s, value) ==
  IF value = s.on THEN s
  ELSE UpdateThumb([s EXCEPT !.on = value, !.changes = @ + 1], value)

\* translate, first part: the thumb position after a drag step of delta.x
TranslatedLeft(left, dx) ==
  IF left + dx < 0 THEN 0
  ELSE IF left + ThumbWidth + dx > TrackWidth THEN TrackWidth - ThumbWidth
  ELSE left + dx

\* mutant: a translate that sets the property whatever the option says
TranslateSetsPropertyAlways == TRUE

\* mutant: a translate that never sets the property
TranslateNeverSetsProperty == FALSE

\* translate: optionally toggle the property value
TranslateSetsProperty == toggleWhileDragging

\* the translate callback
TranslateCallback(s, dx) ==
  LET left == TranslatedLeft(s.left, dx)
      value == ThumbPositionToValue(left)
      moved == [s EXCEPT !.left = left,
                         !.fill = IF value THEN "on" ELSE "off",
                         !.crossed = s.crossed \/ (value # s.on)]
  IN IF TranslateSetsProperty THEN SetOnProperty(moved, value) ELSE moved

\* the drag callback
DragCallback(s) == [s EXCEPT !.dragged = TRUE]

\* mutant: a start callback that keeps the flag of the previous drag
StartKeepsFlag(s) == s

\* the start callback
StartCallback(s) == [s EXCEPT !.crossed = FALSE]

\* the end callback
EndCallback(s) ==
  IF s.dragged
  THEN IF s.crossed
       THEN LET snapped == SetOnProperty(s, ThumbPositionToValue(s.left))
            IN UpdateThumb(snapped, snapped.on)
       ELSE SetOnProperty(s, ~s.on)
  ELSE s

\* the fire callback of the node's button listener
FireCallback(s) ==
  LET toggled == IF ~s.dragged THEN SetOnProperty(s, ~s.on) ELSE s
  IN [toggled EXCEPT !.dragged = FALSE]

\* the up callback of the node's button listener
UpCallback(s) == [s EXCEPT !.dragged = FALSE]

\* write the callbacks' result back
SwitchBecomes(s) ==
  /\ onProperty' = s.on
  /\ thumbLeft' = s.left
  /\ trackFill' = s.fill
  /\ dragged' = s.dragged
  /\ thumbCrossedMidpoint' = s.crossed
  /\ changes' = s.changes

\* the pointer comes over the node: the button listener goes up -> over, or
\* out -> down when the node is pressed; no callback of the switch runs
SwitchEnter ==
  /\ buttonState \in {"up", "out"}
  /\ buttonState' = IF buttonState = "up" THEN "over" ELSE "down"
  /\ swLast' = "enter"
  /\ UNCHANGED <<toggleWhileDragging, onProperty, thumbLeft, trackFill, dragged,
                 thumbCrossedMidpoint, dragging, pointerListeners, pointerType,
                 preValue, everOffSide, thumbMoved, changes, releaseSide,
                 releasedOver>>

\* the pointer leaves the node: down -> out while pressed; over -> up runs the
\* up callback
SwitchExit ==
  /\ buttonState \in {"over", "down"}
  /\ buttonState' = IF buttonState = "over" THEN "up" ELSE "out"
  /\ SwitchBecomes(IF buttonState = "over" THEN UpCallback(SwitchState)
                   ELSE SwitchState)
  /\ swLast' = "exit"
  /\ UNCHANGED <<toggleWhileDragging, dragging, pointerListeners, pointerType,
                 preValue, everOffSide, thumbMoved, releaseSide, releasedOver>>

\* a press on the thumb: the thumb's drag handler starts a drag and attaches
\* its pointer listener, then the event bubbles to the node's button listener
PressThumb(type) ==
  /\ buttonState = "over"
  /\ pointerListeners = <<>>
  /\ buttonState' = "down"
  /\ dragging' = TRUE
  /\ pointerListeners' = <<"drag", "button">>
  /\ pointerType' = type
  /\ SwitchBecomes([StartCallback(SwitchState) EXCEPT !.changes = 0])
  /\ preValue' = onProperty
  /\ everOffSide' = FALSE
  /\ thumbMoved' = FALSE
  /\ swLast' = "pressThumb"
  /\ UNCHANGED <<toggleWhileDragging, releaseSide, releasedOver>>

\* a press on the node outside the thumb: only the button listener sees it
PressTrack(type) ==
  /\ buttonState = "over"
  /\ pointerListeners = <<>>
  /\ buttonState' = "down"
  /\ pointerListeners' = <<"button">>
  /\ pointerType' = type
  /\ SwitchBecomes([SwitchState EXCEPT !.changes = 0])
  /\ preValue' = onProperty
  /\ everOffSide' = FALSE
  /\ thumbMoved' = FALSE
  /\ swLast' = "pressTrack"
  /\ UNCHANGED <<toggleWhileDragging, dragging, releaseSide, releasedOver>>

\* allowTouchSnag: a touch that went down on the track and moves onto the
\* thumb starts a drag; the drag listener is attached after the button's
TouchSnag ==
  /\ pointerType = "touch"
  /\ pointerListeners = <<"button">>
  /\ buttonState = "down"
  /\ ~dragging
  /\ dragging' = TRUE
  /\ pointerListeners' = Append(pointerListeners, "drag")
  /\ SwitchBecomes(StartCallback(SwitchState))
  /\ swLast' = "snag"
  /\ UNCHANGED <<toggleWhileDragging, buttonState, pointerType, preValue,
                 everOffSide, thumbMoved, releaseSide, releasedOver>>

\* the pointer moves during a drag: translate, then drag
DragMove(dx) ==
  /\ dragging
  /\ TranslateCallback(SwitchState, dx).changes <= MaxChanges
  /\ SwitchBecomes(DragCallback(TranslateCallback(SwitchState, dx)))
  /\ everOffSide' = (everOffSide \/
                     ThumbPositionToValue(TranslatedLeft(thumbLeft, dx)) # preValue)
  /\ thumbMoved' = TRUE
  /\ swLast' = "move"
  /\ UNCHANGED <<toggleWhileDragging, dragging, buttonState, pointerListeners,
                 pointerType, preValue, releaseSide, releasedOver>>

\* what one pointer listener does at release
ReleaseListener(s, listener) ==
  IF listener = "drag" THEN EndCallback(s)
  ELSE IF buttonState = "down" THEN FireCallback(s)
  ELSE UpCallback(s)

RECURSIVE ReleaseAll(_, _)
ReleaseAll(s, listeners) ==
  IF listeners = <<>> THEN s
  ELSE ReleaseAll(ReleaseListener(s, Head(listeners)), Tail(listeners))

\* the pointer is released: its listeners run in the order they were attached;
\* the button listener fires when the pointer is over the node (down -> over)
\* and calls up otherwise (out -> up)
Release ==
  /\ pointerListeners # <<>>
  /\ SwitchBecomes(ReleaseAll(SwitchState, pointerListeners))
  /\ buttonState' = IF buttonState = "down" THEN "over" ELSE "up"
  /\ dragging' = FALSE
  /\ pointerListeners' = <<>>
  /\ releaseSide' = ThumbPositionToValue(thumbLeft)
  /\ releasedOver' = (buttonState = "down")
  /\ swLast' = "release"
  /\ UNCHANGED <<toggleWhileDragging, pointerType, preValue, everOffSide,
                 thumbMoved>>

SwitchConstructed(whileDragging, on) ==
  /\ toggleWhileDragging = whileDragging
  /\ onProperty = on
  /\ thumbLeft = IF on THEN TrackWidth - ThumbWidth ELSE 0
  /\ trackFill = IF on THEN "on" ELSE "off"
  /\ dragged = FALSE
  /\ thumbCrossedMidpoint = FALSE
  /\ dragging = FALSE
  /\ buttonState = "up"
  /\ pointerListeners = <<>>
  /\ pointerType = "mouse"
  /\ preValue = on
  /\ everOffSide = FALSE
  /\ thumbMoved = FALSE
  /\ changes = 0
  /\ releaseSide = on
  /\ releasedOver = FALSE
  /\ swLast = "none"

SwitchInit ==
  \E whileDragging \in BOOLEAN, on \in BOOLEAN :
    SwitchConstructed(whileDragging, on)

SwitchNext ==
  \/ SwitchEnter /\ UNCHANGED <<buttonVars, comboVars>>
  \/ SwitchExit /\ UNCHANGED <<buttonVars, comboVars>>
  \/ \E type \in {"mouse", "touch"} : PressThumb(type) /\ UNCHANGED <<buttonVars, comboVars>>
  \/ \E type \in {"mouse", "touch"} : PressTrack(type) /\ UNCHANGED <<buttonVars, comboVars>>
  \/ TouchSnag /\ UNCHANGED <<buttonVars, comboVars>>
  \/ \E dx \in DragDeltas : DragMove(dx) /\ UNCHANGED <<buttonVars, comboVars>>
  \/ Release /\ UNCHANGED <<buttonVars, comboVars>>

\* ---------------------------------------------------------------------------
\* Combo boxes (ComboBox): the combo boxes of Boxes share one display
\* ---------------------------------------------------------------------------
Boxes == {"A", "B"}

\* the values of the items, in list order; values need not be unique
ItemValues == <<"first", "second", "first">>

ItemIndexes == 1..Len(ItemValues)

Keys == {"escape", "down", "up", "tab"}

NoFocus == [on |-> "none", box |-> "none", item |-> 0]
ButtonFocus(b) == [on |-> "button", box |-> b, item |-> 0]
ItemFocus(b, i) == [on |-> "item", box |-> b, item |-> i]

\* options.listPosition: combo box A pops up above its button, B below
ListPosition == [b \in Boxes |-> IF b = "A" THEN "above" ELSE "below"]

\* buttonNode.left, buttonNode.top and buttonNode.bottom in the combo box's
\* own coordinates, and the height of the list
ButtonLeft == 3
ButtonTop == 1
ButtonBottom == 3
ListHeight == 4

\* where listParent lies in the global coordinates
ListParentOrigin == [x |-> 1, y |-> 2]

\* the places the layout may put a combo box at
Origins == {[x |-> d, y |-> MaxOrigin - d] : d \in 0..MaxOrigin}

InitialOrigin == [x |-> 0, y |-> MaxOrigin]

\* self.localToGlobalPoint
LocalToGlobalPoint(b, p) == [x |-> p.x + origin[b].x, y |-> p.y + origin[b].y]

\* listParent.globalToLocalPoint
GlobalToLocalPoint(p) == [x |-> p.x - ListParentOrigin.x, y |-> p.y - ListParentOrigin.y]

\* no property has changed
NoChangeSeen == [box |-> "none", visible |-> FALSE, registered |-> FALSE]

\* the handlers of the combo boxes work on this part of the state
ComboState ==
  [visible |-> listVisible, enable |-> enableClickToDismissListener,
   focused |-> focusedItem, value |-> property,
   listeners |-> displayListeners, focus |-> focus,
   left |-> listLeft, top |-> listTop, ignored |-> ignoredDowns,
   shown |-> buttonItem, seen |-> NoChangeSeen]

\* mutant: an observer that takes the last item with the value
FindLastItem(value) ==
  CHOOSE i \in 1..Len(ItemValues) :
    /\ ItemValues[i] = value
    /\ \A j \in (i + 1)..Len(ItemValues) : ItemValues[j] # value

\* propertyObserver: _.find( items, item.value === value )
FindItem(value) ==
  CHOOSE i \in 1..Len(ItemValues) :
    /\ ItemValues[i] = value
    /\ \A j \in 1..(i - 1) : ItemValues[j] # value

\* property.value = value: when the value changes, propertyObserver puts the
\* item found on the button; the observers see the combo box as it is then
SetProperty(c, b, value) ==
  IF c.value[b] = value THEN c
  ELSE [c EXCEPT !.value[b] = value,
                 !.shown[b] = FindItem(value),
                 !.seen = [box |-> b,
                           visible |-> c.visible[b],
                           registered |-> \E k \in 1..Len(c.listeners) :
                                            c.listeners[k] = b]]

RECURSIVE WithoutFirst(_, _)
WithoutFirst(listeners, b) ==
  IF listeners = <<>> THEN <<>>
  ELSE IF Head(listeners) = b THEN Tail(listeners)
  ELSE <<Head(listeners)>> \o WithoutFirst(Tail(listeners), b)

\* display.removeInputListener: splice( indexOf( listener ), 1 ), which takes
\* the last listener away when the listener is not in the list
RemoveInputListener(listeners, b) ==
  IF \E k \in 1..Len(listeners) : listeners[k] = b
  THEN WithoutFirst(listeners, b)
  ELSE SubSeq(listeners, 1, Len(listeners) - 1)

\* a faulty closePopup that leaves the dismiss listener on the display
ClosePopupKeepsListener(c, b) ==
  [c EXCEPT !.visible[b] = FALSE]

\* closePopup
ClosePopup(c, b) ==
  [c EXCEPT !.listeners = RemoveInputListener(c.listeners, b),
            !.visible[b] = FALSE]

\* a faulty moveList that keeps the position it computed before
MoveListCached(c, b) ==
  IF c.left[b] # 0 \/ c.top[b] # 0 THEN c
  ELSE LET p == GlobalToLocalPoint(LocalToGlobalPoint(b,
                  [x |-> ButtonLeft,
                   y |-> IF ListPosition[b] = "above" THEN ButtonTop
                         ELSE ButtonBottom]))
       IN [c EXCEPT !.left[b] = p.x,
                    !.top[b] = IF ListPosition[b] = "above"
                               THEN p.y - ListHeight ELSE p.y]

\* moveList: setting listNode.bottom puts the top ListHeight higher
MoveList(c, b) ==
  IF ListPosition[b] = "above"
  THEN LET pButtonGlobal == LocalToGlobalPoint(b, [x |-> ButtonLeft, y |-> ButtonTop])
           pButtonLocal == GlobalToLocalPoint(pButtonGlobal)
       IN [c EXCEPT !.left[b] = pButtonLocal.x,
                    !.top[b] = pButtonLocal.y - ListHeight]
  ELSE LET pButtonGlobal == LocalToGlobalPoint(b, [x |-> ButtonLeft, y |-> ButtonBottom])
           pButtonLocal == GlobalToLocalPoint(pButtonGlobal)
       IN [c EXCEPT !.left[b] = pButtonLocal.x,
                    !.top[b] = pButtonLocal.y]

\* a faulty openPopup without the test of listNode.visible
OpenPopupAgain(c, b) ==
  [MoveList(c, b) EXCEPT !.visible[b] = TRUE,
                         !.enable[b] = FALSE,
                         !.ignored[b] = 0,
                         !.listeners = Append(c.listeners, b)]

\* openPopup
OpenPopup(c, b) ==
  IF ~c.visible[b]
  THEN [MoveList(c, b) EXCEPT !.visible[b] = TRUE,
                              !.enable[b] = FALSE,
                              !.ignored[b] = 0,
                              !.listeners = Append(c.listeners, b)]
  ELSE c

\* a faulty dismiss listener without the enable flag
DismissListenerDownAtOnce(c, b) ==
  ClosePopup(c, b)

\* mutant: a dismiss listener that never closes the popup
DismissListenerDownNeverCloses(c, b) ==
  [c EXCEPT !.enable[b] = TRUE, !.ignored[b] = c.ignored[b] + 1]

\* clickToDismissListener.down of combo box b
DismissListenerDown(c, b) ==
  IF c.enable[b] THEN ClosePopup(c, b)
  ELSE [c EXCEPT !.enable[b] = TRUE, !.ignored[b] = c.ignored[b] + 1]

\* the display hands a down event to the listeners it had when the event
\* reached it
RECURSIVE DispatchDown(_, _)
DispatchDown(c, listeners) ==
  IF listeners = <<>> THEN c
  ELSE DispatchDown(DismissListenerDown(c, Head(listeners)), Tail(listeners))

\* the a11y click listener of the button: focus the selected item; the loop
\* goes through all the items
RECURSIVE FocusSelected(_, _, _)
FocusSelected(c, b, i) ==
  IF i > Len(ItemValues) THEN c
  ELSE IF c.value[b] = ItemValues[i]
       THEN FocusSelected([c EXCEPT !.focused[b] = i, !.focus = ItemFocus(b, i)],
                          b, i + 1)
       ELSE FocusSelected(c, b, i + 1)

\* a faulty arrow key handler that goes round at the ends of the list
ArrowKeyWrapping(c, b, direction) ==
  LET next == ((c.focused[b] + direction - 1) % Len(ItemValues)) + 1
  IN IF c.focused[b] \in ItemIndexes
     THEN [c EXCEPT !.focused[b] = next, !.focus = ItemFocus(b, next)]
     ELSE c

\* the keydown listener of the list, arrow keys: focus the item next to the
\* focused one, if there is one
ArrowKey(c, b, direction) ==
  LET next == c.focused[b] + direction
  IN IF c.focused[b] \in ItemIndexes /\ next \in ItemIndexes
     THEN [c EXCEPT !.focused[b] = next, !.focus = ItemFocus(b, next)]
     ELSE c

LastInput(op, b, opened, key, i) ==
  [op |-> op, box |-> b, opened |-> opened, key |-> key, item |-> i]

\* write the handlers' result back
ComboBecomes(c) ==
  /\ listVisible' = c.visible
  /\ enableClickToDismissListener' = c.enable
  /\ focusedItem' = c.focused
  /\ property' = c.value
  /\ displayListeners' = c.listeners
  /\ focus' = c.focus
  /\ listLeft' = c.left
  /\ listTop' = c.top
  /\ ignoredDowns' = c.ignored
  /\ buttonItem' = c.shown
  /\ seenAtChange' = c.seen
  /\ cbBefore' = ComboState
  /\ UNCHANGED <<origin, disposed, propertyLinked, enabledLinked,
                 assertionsEnabled, constructed, rejected, opacityAsked,
                 comboEnabled, pickable, comboOpacity>>

\* a pointer goes down on the button of combo box b: openPopup, then the
\* event reaches the display's listeners
ButtonDown(b) ==
  /\ constructed[b] /\ ~disposed[b]
  /\ pickable[b]
  /\ LET opened == OpenPopup(ComboState, b)
     IN ComboBecomes(DispatchDown(opened, opened.listeners))
  /\ cbLast' = LastInput("buttonDown", b, ~listVisible[b], "none", 0)

\* a pointer goes down outside the buttons and the items
OutsideDown ==
  /\ ComboBecomes(DispatchDown(ComboState, displayListeners))
  /\ cbLast' = LastInput("outsideDown", "none", FALSE, "none", 0)

\* mutant: an itemListener.down that lets the event go on to the display
ItemDownResultReachingDisplay(c, b) == DispatchDown(c, c.listeners)

\* itemListener.down: event.abort()
ItemDownResult(c, b) == c

\* a pointer goes down on an item of the open list, which is a child of
\* listParent: the event is aborted and does not reach the display
ItemDown(b, i) ==
  /\ constructed[b] /\ ~disposed[b]
  /\ listVisible[b]
  /\ ComboBecomes(ItemDownResult(ComboState, b))
  /\ cbLast' = LastInput("itemDown", b, FALSE, "none", i)

\* a faulty itemListener.up that leaves the dismiss listener on the display
ItemUpResultKeepsListener(c, b, i) ==
  [c EXCEPT !.visible[b] = FALSE,
            !.value[b] = ItemValues[i]]

\* mutant: an itemListener.up that sets the property first
ItemUpResultSettingFirst(c, b, i) ==
  LET set == SetProperty(c, b, ItemValues[i])
  IN [set EXCEPT !.visible[b] = FALSE,
                 !.listeners = RemoveInputListener(c.listeners, b)]

\* itemListener.up: hide the list, remove the dismiss listener, then set the
\* property
ItemUpResult(c, b, i) ==
  LET closed == [c EXCEPT !.visible[b] = FALSE,
                          !.listeners = RemoveInputListener(c.listeners, b)]
  IN SetProperty(closed, b, ItemValues[i])

ItemUp(b, i) ==
  /\ constructed[b] /\ ~disposed[b]
  /\ listVisible[b]
  /\ ComboBecomes(ItemUpResult(ComboState, b, i))
  /\ cbLast' = LastInput("itemUp", b, FALSE, "none", i)

\* the a11y click listener of an item
ItemA11yClick(b, i) ==
  /\ constructed[b] /\ ~disposed[b]
  /\ listVisible[b]
  /\ LET selected == SetProperty(ComboState, b, ItemValues[i])
     IN ComboBecomes([ClosePopup(selected, b) EXCEPT !.focus = ButtonFocus(b)])
  /\ cbLast' = LastInput("itemA11yClick", b, FALSE, "none", i)

\* the a11y click listener of the button
ButtonA11yClick(b) ==
  /\ constructed[b] /\ ~disposed[b]
  /\ IF listVisible[b]
     THEN ComboBecomes([ClosePopup(ComboState, b) EXCEPT !.focus = ButtonFocus(b)])
     ELSE ComboBecomes(FocusSelected(OpenPopup(ComboState, b), b, 1))
  /\ cbLast' = LastInput("buttonA11yClick", b, ~listVisible[b], "none", 0)

\* a faulty keydown listener whose arrow keys also select the item
ListKeyResultSelecting(c, b, key) ==
  CASE key = "escape" -> [ClosePopup(c, b) EXCEPT !.focus = ButtonFocus(b)]
    [] key = "down" ->
         [ArrowKey(c, b, 1) EXCEPT !.value[b] = ItemValues[ArrowKey(c, b, 1).focus.item]]
    [] key = "up" ->
         [ArrowKey(c, b, -1) EXCEPT !.value[b] = ItemValues[ArrowKey(c, b, -1).focus.item]]
    [] key = "tab" -> ClosePopup(c, b)

\* a faulty keydown listener whose Escape does not give the focus back
ListKeyResultEscapeNoFocus(c, b, key) ==
  CASE key = "escape" -> ClosePopup(c, b)
    [] key = "down" -> ArrowKey(c, b, 1)
    [] key = "up" -> ArrowKey(c, b, -1)
    [] key = "tab" -> ClosePopup(c, b)

\* the keydown listener of the list
ListKeyResult(c, b, key) ==
  CASE key = "escape" -> [ClosePopup(c, b) EXCEPT !.focus = ButtonFocus(b)]
    [] key = "down" -> ArrowKey(c, b, 1)
    [] key = "up" -> ArrowKey(c, b, -1)
    [] key = "tab" -> ClosePopup(c, b)

\* a key goes down while an item of the list has the focus
ListKeyDown(b, key) ==
  /\ constructed[b] /\ ~disposed[b]
  /\ listVisible[b]
  /\ focus.on = "item" /\ focus.box = b
  /\ ComboBecomes(ListKeyResult(ComboState, b, key))
  /\ cbLast' = LastInput("listKey", b, FALSE, key, 0)

\* the keydown listener of the button
ButtonKeyDown(b, key) ==
  /\ constructed[b] /\ ~disposed[b]
  /\ focus = ButtonFocus(b)
  /\ ComboBecomes(IF listVisible[b] /\ key = "escape"
                  THEN ClosePopup(ComboState, b)
                  ELSE ComboState)
  /\ cbLast' = LastInput("buttonKey", b, FALSE, key, 0)

\* the user moves the keyboard focus to the button of combo box b
FocusButton(b) ==
  /\ constructed[b] /\ ~disposed[b]
  /\ focus # ButtonFocus(b)
  /\ ComboBecomes([ComboState EXCEPT !.focus = ButtonFocus(b)])
  /\ cbLast' = LastInput("focusButton", b, FALSE, "none", 0)

\* the user moves the keyboard focus into the open list of combo box b; no
\* listener of the combo box sees it
FocusItem(b, i) ==
  /\ constructed[b] /\ ~disposed[b]
  /\ listVisible[b]
  /\ focus # ItemFocus(b, i)
  /\ ComboBecomes([ComboState EXCEPT !.focus = ItemFocus(b, i)])
  /\ cbLast' = LastInput("focusItem", b, FALSE, "none", i)

\* the layout moves combo box b
MoveBox(b, to) ==
  /\ constructed[b] /\ ~disposed[b]
  /\ to # origin[b]
  /\ origin' = [origin EXCEPT ![b] = to]
  /\ cbBefore' = ComboState
  /\ cbLast' = LastInput("moveBox", b, FALSE, "none", 0)
  /\ UNCHANGED <<listVisible, enableClickToDismissListener, focusedItem,
                 property, displayListeners, focus, listLeft, listTop,
                 disposed, propertyLinked, enabledLinked, ignoredDowns,
                 assertionsEnabled, constructed, rejected, opacityAsked,
                 buttonItem, comboEnabled, pickable, comboOpacity, seenAtChange>>

\* dispose: disposeComboBox, then Node.prototype.dispose takes the combo box
\* with its button out of the scene; the list is a child of listParent
Dispose(b) ==
  /\ constructed[b] /\ ~disposed[b]
  /\ disposed' = [disposed EXCEPT ![b] = TRUE]
  /\ enabledLinked' = [enabledLinked EXCEPT ![b] = FALSE]
  /\ propertyLinked' = [propertyLinked EXCEPT ![b] = FALSE]
  /\ focus' = IF focus.box = b THEN NoFocus ELSE focus
  /\ cbBefore' = ComboState
  /\ cbLast' = LastInput("dispose", b, FALSE, "none", 0)
  /\ UNCHANGED <<listVisible, enableClickToDismissListener, focusedItem,
                 property, displayListeners, listLeft, listTop, origin,
                 ignoredDowns, assertionsEnabled, constructed, rejected,
                 opacityAsked, buttonItem, comboEnabled, pickable,
                 comboOpacity, seenAtChange>>

\* opacities are in tenths
OpacityUnit == 10

\* disabledOpacity: 0.5
DefaultDisabledOpacity == 5

\* no constructor call has been made
NotAsked == 0 - 1

\* the values construction is tried with: 0, 0.5, 1 and 1.2
Opacities == {0, DefaultDisabledOpacity, OpacityUnit, OpacityUnit + 2}

\* mutant: a check that lets the ends of the interval pass
OpacityRejectedOutsideClosedInterval(assertions, opacity) ==
  assertions /\ ~(opacity >= 0 /\ opacity <= OpacityUnit)

\* assert && assert( options.disabledOpacity > 0 && options.disabledOpacity < 1 )
OpacityRejected(assertions, opacity) ==
  assertions /\ ~(opacity > 0 /\ opacity < OpacityUnit)

\* mutant: an observer that leaves a disabled combo box pickable
PickableAlways(isEnabled) == TRUE

\* enabledObserver: self.pickable = enabled
PickableFor(isEnabled) == isEnabled

\* new ComboBox( items, property, listParent, { disabledOpacity: opacity } ):
\* the options are validated before Node.call( this ), and the observers are
\* linked at the end of the constructor
Construct(b, opacity) ==
  /\ ~constructed[b]
  /\ opacityAsked' = [opacityAsked EXCEPT ![b] = opacity]
  /\ IF OpacityRejected(assertionsEnabled, opacity)
     THEN /\ rejected' = [rejected EXCEPT ![b] = TRUE]
          /\ UNCHANGED <<constructed, propertyLinked, enabledLinked,
                         buttonItem, pickable, comboOpacity>>
     ELSE /\ rejected' = [rejected EXCEPT ![b] = FALSE]
          /\ constructed' = [constructed EXCEPT ![b] = TRUE]
          /\ propertyLinked' = [propertyLinked EXCEPT ![b] = TRUE]
          /\ enabledLinked' = [enabledLinked EXCEPT ![b] = TRUE]
          /\ buttonItem' = [buttonItem EXCEPT ![b] = FindItem(property[b])]
          /\ pickable' = [pickable EXCEPT ![b] = PickableFor(comboEnabled[b])]
          /\ comboOpacity' = [comboOpacity EXCEPT ![b] =
                                IF comboEnabled[b] THEN OpacityUnit ELSE opacity]
  /\ cbBefore' = ComboState
  /\ cbLast' = LastInput("construct", b, FALSE, "none", 0)
  /\ UNCHANGED <<listVisible, enableClickToDismissListener, focusedItem,
                 property, displayListeners, focus, listLeft, listTop, origin,
                 disposed, ignoredDowns, assertionsEnabled, comboEnabled,
                 seenAtChange>>

\* somebody else sets the property combo box b is bound to, to the value of
\* one of the items
SetPropertyExternally(b, value) ==
  /\ constructed[b] /\ ~disposed[b]
  /\ value # property[b]
  /\ ComboBecomes(SetProperty(ComboState, b, value))
  /\ cbLast' = LastInput("setProperty", b, FALSE, "none", 0)

\* enabledProperty is set: enabledObserver sets pickable and opacity of the
\* combo box; the list is a child of listParent
SetComboEnabled(b, value) ==
  /\ constructed[b] /\ ~disposed[b]
  /\ value # comboEnabled[b]
  /\ comboEnabled' = [comboEnabled EXCEPT ![b] = value]
  /\ pickable' = [pickable EXCEPT ![b] = PickableFor(value)]
  /\ comboOpacity' = [comboOpacity EXCEPT ![b] =
                        IF value THEN OpacityUnit ELSE opacityAsked[b]]
  /\ seenAtChange' = NoChangeSeen
  /\ cbBefore' = ComboState
  /\ cbLast' = LastInput("setEnabled", b, FALSE, "none", 0)
  /\ UNCHANGED <<listVisible, enableClickToDismissListener, focusedItem,
                 property, displayListeners, focus, listLeft, listTop, origin,
                 disposed, propertyLinked, enabledLinked, ignoredDowns,
                 assertionsEnabled, constructed, rejected, opacityAsked,
                 buttonItem>>

\* the display before any combo box is constructed
NoCombos(assertions) ==
  /\ listVisible = [b \in Boxes |-> FALSE]
  /\ enableClickToDismissListener = [b \in Boxes |-> FALSE]
  /\ focusedItem = [b \in Boxes |-> 0]
  /\ property = [b \in Boxes |-> ItemValues[1]]
  /\ displayListeners = <<>>
  /\ focus = NoFocus
  /\ listLeft = [b \in Boxes |-> 0]
  /\ listTop = [b \in Boxes |-> 0]
  /\ origin = [b \in Boxes |-> InitialOrigin]
  /\ disposed = [b \in Boxes |-> FALSE]
  /\ propertyLinked = [b \in Boxes |-> FALSE]
  /\ enabledLinked = [b \in Boxes |-> FALSE]
  /\ ignoredDowns = [b \in Boxes |-> 0]
  /\ assertionsEnabled = assertions
  /\ constructed = [b \in Boxes |-> FALSE]
  /\ rejected = [b \in Boxes |-> FALSE]
  /\ opacityAsked = [b \in Boxes |-> NotAsked]
  /\ buttonItem = [b \in Boxes |-> 0]
  /\ comboEnabled = [b \in Boxes |-> TRUE]
  /\ pickable = [b \in Boxes |-> TRUE]
  /\ comboOpacity = [b \in Boxes |-> OpacityUnit]
  /\ seenAtChange = NoChangeSeen
  /\ cbBefore = ComboState
  /\ cbLast = LastInput("none", "none", FALSE, "none", 0)

ConstructionInit == \E assertions \in BOOLEAN : NoCombos(assertions)

CombosConstructed(values) ==
  /\ listVisible = [b \in Boxes |-> FALSE]
  /\ enableClickToDismissListener = [b \in Boxes |-> FALSE]
  /\ focusedItem = [b \in Boxes |-> 0]
  /\ property = values
  /\ displayListeners = <<>>
  /\ focus = NoFocus
  /\ listLeft = [b \in Boxes |-> 0]
  /\ listTop = [b \in Boxes |-> 0]
  /\ origin = [b \in Boxes |-> InitialOrigin]
  /\ disposed = [b \in Boxes |-> FALSE]
  /\ propertyLinked = [b \in Boxes |-> TRUE]
  /\ enabledLinked = [b \in Boxes |-> TRUE]
  /\ ignoredDowns = [b \in Boxes |-> 0]
  /\ assertionsEnabled = TRUE
  /\ constructed = [b \in Boxes |-> TRUE]
  /\ rejected = [b \in Boxes |-> FALSE]
  /\ opacityAsked = [b \in Boxes |-> DefaultDisabledOpacity]
  /\ buttonItem = [b \in Boxes |-> FindItem(values[b])]
  /\ comboEnabled = [b \in Boxes |-> TRUE]
  /\ pickable = [b \in Boxes |-> TRUE]
  /\ comboOpacity = [b \in Boxes |-> OpacityUnit]
  /\ seenAtChange = NoChangeSeen
  /\ cbBefore = ComboState
  /\ cbLast = LastInput("none", "none", FALSE, "none", 0)

ComboInit ==
  \E values \in [Boxes -> {ItemValues[i] : i \in ItemIndexes}] :
    CombosConstructed(values)

ComboNext ==
  \/ \E b \in Boxes : ButtonDown(b) /\ UNCHANGED <<buttonVars, switchVars>>
  \/ OutsideDown /\ UNCHANGED <<buttonVars, switchVars>>
  \/ \E b \in Boxes, i \in ItemIndexes :
       ItemDown(b, i) /\ UNCHANGED <<buttonVars, switchVars>>
  \/ \E b \in Boxes, i \in ItemIndexes :
       ItemUp(b, i) /\ UNCHANGED <<buttonVars, switchVars>>
  \/ \E b \in Boxes, i \in ItemIndexes :
       ItemA11yClick(b, i) /\ UNCHANGED <<buttonVars, switchVars>>
  \/ \E b \in Boxes : ButtonA11yClick(b) /\ UNCHANGED <<buttonVars, switchVars>>
  \/ \E b \in Boxes, key \in Keys :
       ListKeyDown(b, key) /\ UNCHANGED <<buttonVars, switchVars>>
  \/ \E b \in Boxes, key \in Keys :
       ButtonKeyDown(b, key) /\ UNCHANGED <<buttonVars, switchVars>>
  \/ \E b \in Boxes : FocusButton(b) /\ UNCHANGED <<buttonVars, switchVars>>
  \/ \E b \in Boxes, i \in ItemIndexes :
       FocusItem(b, i) /\ UNCHANGED <<buttonVars, switchVars>>

\* the combo boxes under layout changes and disposal
LayoutNext ==
  \/ \E b \in Boxes : ButtonDown(b) /\ UNCHANGED <<buttonVars, switchVars>>
  \/ OutsideDown /\ UNCHANGED <<buttonVars, switchVars>>
  \/ \E b \in Boxes : ButtonA11yClick(b) /\ UNCHANGED <<buttonVars, switchVars>>
  \/ \E b \in Boxes, to \in Origins :
       MoveBox(b, to) /\ UNCHANGED <<buttonVars, switchVars>>
  \/ \E b \in Boxes : Dispose(b) /\ UNCHANGED <<buttonVars, switchVars>>

\* the combo boxes from their construction on
ConstructionNext ==
  \/ \E b \in Boxes, opacity \in Opacities :
       Construct(b, opacity) /\ UNCHANGED <<buttonVars, switchVars>>
  \/ \E b \in Boxes : ButtonDown(b) /\ UNCHANGED <<buttonVars, switchVars>>
  \/ OutsideDown /\ UNCHANGED <<buttonVars, switchVars>>
  \/ \E b \in Boxes : ButtonA11yClick(b) /\ UNCHANGED <<buttonVars, switchVars>>
  \/ \E b \in Boxes : Dispose(b) /\ UNCHANGED <<buttonVars, switchVars>>

\* the combo boxes with selections, changes of the property from outside and
\* changes of enabledProperty
SelectionNext ==
  \/ \E b \in Boxes : ButtonDown(b) /\ UNCHANGED <<buttonVars, switchVars>>
  \/ OutsideDown /\ UNCHANGED <<buttonVars, switchVars>>
  \/ \E b \in Boxes, i \in ItemIndexes :
       ItemDown(b, i) /\ UNCHANGED <<buttonVars, switchVars>>
  \/ \E b \in Boxes, i \in ItemIndexes :
       ItemUp(b, i) /\ UNCHANGED <<buttonVars, switchVars>>
  \/ \E b \in Boxes, i \in ItemIndexes :
       ItemA11yClick(b, i) /\ UNCHANGED <<buttonVars, switchVars>>
  \/ \E b \in Boxes : ButtonA11yClick(b) /\ UNCHANGED <<buttonVars, switchVars>>
  \/ \E b \in Boxes, value \in {ItemValues[i] : i \in ItemIndexes} :
       SetPropertyExternally(b, value) /\ UNCHANGED <<buttonVars, switchVars>>
  \/ \E b \in Boxes, value \in BOOLEAN :
       SetComboEnabled(b, value) /\ UNCHANGED <<buttonVars, switchVars>>

\* Each specification constructs all the widgets and then drives one of them.
DefaultComboValues == [b \in Boxes |-> ItemValues[1]]

ButtonSpecInit ==
  /\ ButtonInit
  /\ SwitchConstructed(FALSE, FALSE)
  /\ CombosConstructed(DefaultComboValues)

SwitchSpecInit ==
  /\ SwitchInit
  /\ ButtonConstructed("push", FALSE, ValueOff)
  /\ CombosConstructed(DefaultComboValues)

ComboSpecInit ==
  /\ ComboInit
  /\ ButtonConstructed("push", FALSE, ValueOff)
  /\ SwitchConstructed(FALSE, FALSE)

LayoutSpecInit ==
  /\ CombosConstructed(DefaultComboValues)
  /\ ButtonConstructed("push", FALSE, ValueOff)
  /\ SwitchConstructed(FALSE, FALSE)

ButtonSpec == ButtonSpecInit /\ [][ButtonNext]_vars

WidgetSpecInit ==
  /\ WidgetInit
  /\ SwitchConstructed(FALSE, FALSE)
  /\ CombosConstructed(DefaultComboValues)

WidgetSpec == WidgetSpecInit /\ [][WidgetNext]_vars

SwitchSpec == SwitchSpecInit /\ [][SwitchNext]_vars

ComboSpec == ComboSpecInit /\ [][ComboNext]_vars

LayoutSpec == LayoutSpecInit /\ [][LayoutNext]_vars

ConstructionSpecInit ==
  /\ ConstructionInit
  /\ ButtonConstructed("push", FALSE, ValueOff)
  /\ SwitchConstructed(FALSE, FALSE)

ConstructionSpec == ConstructionSpecInit /\ [][ConstructionNext]_vars

SelectionSpecInit ==
  /\ ComboInit
  /\ ButtonConstructed("push", FALSE, ValueOff)
  /\ SwitchConstructed(FALSE, FALSE)

SelectionSpec == SelectionSpecInit /\ [][SelectionNext]_vars

\* ---------------------------------------------------------------------------
\* Properties of the button (checked under ButtonSpec)
\* ---------------------------------------------------------------------------

\* the priority table of the interaction state, in evaluation order
PriorityTable ==
  << [matches |-> ~enabled /\ down, state |-> "disabled-pressed"],
     [matches |-> ~enabled,         state |-> "disabled"],
     [matches |-> down,             state |-> "pressed"],
     [matches |-> Over,             state |-> "over"],
     [matches |-> TRUE,             state |-> "idle"] >>

FirstMatchingRow ==
  CHOOSE i \in 1..Len(PriorityTable) :
    /\ PriorityTable[i].matches
    /\ \A j \in 1..(i - 1) : ~PriorityTable[j].matches

\* C1: in every reachable state the derived interaction state is the state of
\* the first matching row of the priority table applied to the current flags,
\* and it is exactly one of the five values.
C1_StateFollowsPriorityTable ==
  /\ interactionState = PriorityTable[FirstMatchingRow].state
  /\ interactionState \in InteractionStates

\* C1 witness: over, down and disabled gives disabled-pressed
C1_Witness ==
  /\ Over /\ down /\ ~enabled
  /\ interactionState = "disabled-pressed"

\* C2: for an enabled fire-on-up button a pointer event fires exactly once
\* when it is a pointerUp while over, and zero times otherwise.
C2_FireOnUpOnlyWhileOver ==
  (~fireOnDown /\ enabled /\ lastEvent \in PointerEvents) =>
    firedNow = (IF lastEvent = "up" /\ Over THEN 1 ELSE 0)

\* C2 witness: a press released while still over has fired once
C2_Witness ==
  /\ ~fireOnDown /\ enabled
  /\ lastEvent = "up" /\ downBefore /\ Over
  /\ firedNow = 1

\* C3: for an enabled fire-on-down button every pointerDown fires exactly
\* once and no pointerUp fires, whatever over is at release.
C3_FireOnDownOnly ==
  /\ (fireOnDown /\ enabled /\ lastEvent = "down") => firedNow = 1
  /\ (fireOnDown /\ lastEvent = "up") => firedNow = 0

\* C3 witness: a fire-on-down press was released over the button without a
\* second fire
C3_Witness ==
  /\ fireOnDown /\ enabled
  /\ lastEvent = "up" /\ downBefore /\ Over
  /\ firedNow = 0 /\ fireCount = 1

\* C4: no step taken while the button is disabled fires the action or changes
\* the cell of a toggle button, for both fireOnDown settings.
C4_DisabledNeverFires ==
  [][~enabled => (fireCount' = fireCount /\ toggleProperty' = toggleProperty)]_vars

\* C4 witness: an accessibility click arrived at a disabled button and did not
\* fire
C4_Witness ==
  /\ ~enabled
  /\ lastEvent = "a11yClick"
  /\ firedNow = 0

\* C5: after N fires the cell of a toggle button holds its initial value when
\* N is even and the other value when N is odd, and it never holds a third
\* value.
C5_ToggleAlternates ==
  kind = "toggle" =>
    /\ toggleProperty \in {ValueOff, ValueOn}
    /\ toggleProperty =
         IF fireCount % 2 = 0 THEN toggleInit
         ELSE IF toggleInit = ValueOff THEN ValueOn ELSE ValueOff

\* C5 witness: two fires brought the cell back to its initial value
C5_Witness ==
  /\ kind = "toggle"
  /\ fireCount = 2
  /\ toggleProperty = toggleInit

\* ---------------------------------------------------------------------------
\* Properties of the on/off switch (checked under SwitchSpec)
\* ---------------------------------------------------------------------------

\* C6: a completed press and release during which the thumb never crossed the
\* midpoint, a click released over the switch or a drag that stayed on the
\* original side, changes the property to the other value exactly once.
C6_UncrossedGestureTogglesOnce ==
  (swLast = "release" /\ ~everOffSide /\ (thumbMoved \/ releasedOver)) =>
    (changes = 1 /\ onProperty = ~preValue)

\* C7: when the thumb crossed the midpoint during the gesture, release sets
\* the property to the side the thumb rested on at release; a round trip
\* leaves the property at its value from before the drag.
C7_CrossedGestureSnaps ==
  (swLast = "release" /\ everOffSide) =>
    /\ onProperty = releaseSide
    /\ (releaseSide = preValue => onProperty = preValue)

C9_ValueDecidedAtRelease ==
  [][(~toggleWhileDragging /\ onProperty' # onProperty)
       => (swLast' = "release" /\ changes' = 1)]_vars

\* C9 witness: a drag across the midpoint changed the property at release only
C9_Witness ==
  /\ ~toggleWhileDragging
  /\ swLast = "release"
  /\ thumbMoved /\ everOffSide
  /\ changes = 1 /\ onProperty # preValue

\* ---------------------------------------------------------------------------
\* Properties of the combo boxes (checked under ComboSpec)
\* ---------------------------------------------------------------------------

\* C10: when a combo box has just been opened, by pointer or by accessibility
\* activation, every other combo box of the display is closed and exactly one
\* dismiss listener is registered on the display.
C10_OnePopupPerDisplay ==
  (cbLast.op \in {"buttonDown", "buttonA11yClick"} /\ cbLast.opened) =>
    /\ \A b \in Boxes : listVisible[b] => b = cbLast.box
    /\ Len(displayListeners) = 1

\* how often the dismiss listener of combo box b is on the display
Registrations(b) ==
  Cardinality({k \in 1..Len(displayListeners) : displayListeners[k] = b})

\* the input handled last was a pointer-down that reached the display
DownReachedDisplay == cbLast.op \in {"outsideDown", "buttonDown"}

\* C11: the press (or activation) that opened a popup leaves it open; the
\* dismiss listener lets exactly one pointer-down pass, so a popup is closed
\* by a pointer-down only after one was ignored, and a pointer-down outside
\* the popup is ignored when none was ignored before and closes it otherwise.
C11_ArmDelay ==
  /\ (cbLast.op \in {"buttonDown", "buttonA11yClick"} /\ cbLast.opened) =>
       listVisible[cbLast.box]
  /\ \A b \in Boxes :
       /\ ignoredDowns[b] <= 1
       /\ (DownReachedDisplay /\ cbBefore.visible[b] /\ ~listVisible[b]) =>
            cbBefore.ignored[b] = 1
       /\ (cbLast.op = "outsideDown" /\ cbBefore.visible[b]
           /\ cbBefore.ignored[b] = 0) =>
            (listVisible[b] /\ ignoredDowns[b] = 1)
       /\ (cbLast.op = "outsideDown" /\ cbBefore.visible[b]
           /\ cbBefore.ignored[b] = 1) =>
            ~listVisible[b]

\* C11 witness: an outside press closes a popup that let one press pass
C11_Witness ==
  /\ cbLast.op = "outsideDown"
  /\ \E b \in Boxes :
       cbBefore.visible[b] /\ cbBefore.ignored[b] = 1 /\ ~listVisible[b]

\* C12 as stated: a selection by pointer release or by accessibility click
\* sets the property to the item's value, takes the dismiss listener off the
\* display, hides the popup and puts the focus on the button.
C12_SelectionHasFourEffects ==
  cbLast.op \in {"itemUp", "itemA11yClick"} =>
    /\ property[cbLast.box] = ItemValues[cbLast.item]
    /\ Registrations(cbLast.box) = 0
    /\ ~listVisible[cbLast.box]
    /\ focus = ButtonFocus(cbLast.box)

\* C12 amended: both selection paths set the property, take the dismiss
\* listener off the display and hide the popup; the accessibility click puts
\* the focus on the button, the pointer release leaves the focus where it was.
C12_SelectionEffects ==
  cbLast.op \in {"itemUp", "itemA11yClick"} =>
    /\ property[cbLast.box] = ItemValues[cbLast.item]
    /\ Registrations(cbLast.box) = 0
    /\ ~listVisible[cbLast.box]
    /\ cbLast.op = "itemA11yClick" => focus = ButtonFocus(cbLast.box)
    /\ cbLast.op = "itemUp" => focus = cbBefore.focus

\* C12 witness: a pointer release changes the value while the focus is not
\* on the button
C12_Witness ==
  /\ cbLast.op = "itemUp"
  /\ property[cbLast.box] # cbBefore.value[cbLast.box]
  /\ focus # ButtonFocus(cbLast.box)
  /\ cbBefore.visible[cbLast.box]

\* C13: a pointer-down outside an open and armed popup hides it, takes its
\* dismiss listener off the display and changes no property.
C13_OutsideClickDismisses ==
  \A b \in Boxes :
    (cbLast.op = "outsideDown" /\ cbBefore.visible[b] /\ cbBefore.enable[b]) =>
      /\ ~listVisible[b]
      /\ Registrations(b) = 0
      /\ property = cbBefore.value

\* C13 witness: an armed popup was dismissed, another one stays registered
C13_Witness ==
  /\ cbLast.op = "outsideDown"
  /\ \E b \in Boxes : cbBefore.visible[b] /\ cbBefore.enable[b]
  /\ Len(cbBefore.listeners) = 2
  /\ Len(displayListeners) = 1

\* C14: Escape in the open list or on the button of an open combo box closes
\* the popup, changes no property and ends with the focus on the button; Tab
\* in the open list closes the popup and leaves the focus as it was.
C14_KeyboardDismissal ==
  /\ (cbLast.op = "listKey" /\ cbLast.key = "escape") =>
       /\ ~listVisible[cbLast.box]
       /\ property = cbBefore.value
       /\ focus = ButtonFocus(cbLast.box)
  /\ (cbLast.op = "buttonKey" /\ cbLast.key = "escape"
      /\ cbBefore.visible[cbLast.box]) =>
       /\ ~listVisible[cbLast.box]
       /\ property = cbBefore.value
       /\ focus = ButtonFocus(cbLast.box)
  /\ (cbLast.op = "listKey" /\ cbLast.key = "tab") =>
       /\ ~listVisible[cbLast.box]
       /\ focus = cbBefore.focus

\* C14 witness: Escape in the list, with the focus on an item whose value is
\* not the property's
C14_Witness ==
  /\ cbLast.op = "listKey" /\ cbLast.key = "escape"
  /\ cbBefore.focus.on = "item"
  /\ ItemValues[cbBefore.focus.item] # property[cbLast.box]
  /\ focus = ButtonFocus(cbLast.box)

\* C15: with the focused-item record at item i of n, Down moves the record
\* and the focus to item i + 1 when i < n and changes nothing at i = n, Up
\* moves them to item i - 1 when i > 1 and changes nothing at i = 1; a key
\* moves the record by at most one item.
C15_ArrowKeysMoveByOne ==
  (cbLast.op = "listKey" /\ cbLast.key \in {"down", "up"}
   /\ cbBefore.focused[cbLast.box] \in ItemIndexes) =>
    LET b == cbLast.box
        i == cbBefore.focused[b]
        n == Len(ItemValues)
        moved(j) == focusedItem[b] = j /\ focus = ItemFocus(b, j)
        stayed == focusedItem[b] = i /\ focus = cbBefore.focus
    IN /\ (cbLast.key = "down" /\ i < n) => moved(i + 1)
       /\ (cbLast.key = "down" /\ i = n) => stayed
       /\ (cbLast.key = "up" /\ i > 1) => moved(i - 1)
       /\ (cbLast.key = "up" /\ i = 1) => stayed
       /\ focusedItem[b] - i \in {-1, 0, 1}

\* C15 witness: Down at the last item left the focus there
C15_Witness ==
  /\ cbLast.op = "listKey" /\ cbLast.key = "down"
  /\ cbBefore.focused[cbLast.box] = Len(ItemValues)
  /\ focusedItem[cbLast.box] = Len(ItemValues)
  /\ focus = ItemFocus(cbLast.box, Len(ItemValues))

\* C16: an Up or Down key in the list changes no property and closes no
\* popup; a property changes only by a pointer release on an item or an
\* accessibility click on an item.
C16_MovingFocusCommitsNothing ==
  /\ (cbLast.op = "listKey" /\ cbLast.key \in {"down", "up"}) =>
       (property = cbBefore.value /\ listVisible = cbBefore.visible)
  /\ property # cbBefore.value => cbLast.op \in {"itemUp", "itemA11yClick"}

\* C16 witness: an arrow key moved the focus to an item whose value is not
\* the property's
C16_Witness ==
  /\ cbLast.op = "listKey" /\ cbLast.key \in {"down", "up"}
  /\ focus # cbBefore.focus
  /\ focus.on = "item"
  /\ ItemValues[focus.item] # property[cbLast.box]

\* the first item of the list whose value is the property's
FirstMatch(b) ==
  CHOOSE i \in ItemIndexes :
    /\ ItemValues[i] = property[b]
    /\ \A j \in 1..(i - 1) : ItemValues[j] # property[b]

\* C17: when an accessibility click on the button has opened the popup, the
\* focus and the focused-item record are on the first item whose value is
\* the property's.
C17_FocusOnFirstMatch ==
  (cbLast.op = "buttonA11yClick" /\ cbLast.opened) =>
    /\ focusedItem[cbLast.box] = FirstMatch(cbLast.box)
    /\ focus = ItemFocus(cbLast.box, FirstMatch(cbLast.box))

\* C18: the dismiss listener of a combo box is on the display once while its
\* popup is visible and not at all while it is hidden.
C18_ListenerIffVisible ==
  \A b \in Boxes : Registrations(b) = IF listVisible[b] THEN 1 ELSE 0

\* C18 witness: a selection closed one popup while the other one stays open
C18_Witness ==
  /\ cbLast.op = "itemUp"
  /\ ~listVisible[cbLast.box]
  /\ \E b \in Boxes : listVisible[b] /\ displayListeners = <<b>>

\* the edges of the list and of the button in global coordinates
ListGlobalLeft(b) == listLeft[b] + ListParentOrigin.x
ListGlobalTop(b) == listTop[b] + ListParentOrigin.y
ListGlobalBottom(b) == ListGlobalTop(b) + ListHeight
ButtonGlobalLeft(b) == ButtonLeft + origin[b].x
ButtonGlobalTop(b) == ButtonTop + origin[b].y
ButtonGlobalBottom(b) == ButtonBottom + origin[b].y

\* C19: when a popup has just opened, its left edge is the button's left
\* edge where the button is now, and its bottom edge is the button's top
\* edge ('above') or its top edge is the button's bottom edge ('below').
C19_PositionRecomputedAtOpen ==
  (cbLast.op \in {"buttonDown", "buttonA11yClick"} /\ cbLast.opened) =>
    LET b == cbLast.box
    IN /\ ListGlobalLeft(b) = ButtonGlobalLeft(b)
       /\ ListPosition[b] = "above" => ListGlobalBottom(b) = ButtonGlobalTop(b)
       /\ ListPosition[b] = "below" => ListGlobalTop(b) = ButtonGlobalBottom(b)

\* C19 witness: a popup opens again after its combo box has moved, at another
\* place than before
C19_Witness ==
  /\ cbLast.op \in {"buttonDown", "buttonA11yClick"} /\ cbLast.opened
  /\ origin[cbLast.box] # InitialOrigin
  /\ cbBefore.left[cbLast.box] # 0
  /\ cbBefore.left[cbLast.box] # listLeft[cbLast.box]
  /\ cbBefore.top[cbLast.box] # listTop[cbLast.box]

\* C20: a disposed combo box has no dismiss listener on the display and its
\* observers of the property and of enabledProperty are unlinked.
C20_DisposeReleasesSubscriptions ==
  \A b \in Boxes :
    disposed[b] =>
      /\ Registrations(b) = 0
      /\ ~propertyLinked[b]
      /\ ~enabledLinked[b]


\* ---------------------------------------------------------------------------
\* Buttons: enabling, sticky toggles, views, disposal
\* ---------------------------------------------------------------------------

\* C21: setEnabled(false) while down is true does not cancel the press: down
\* stays true and the interaction state becomes disabled-pressed.  A later
\* setEnabled(true) yields the state derived from the flags as they are then,
\* and fires nothing for the events that happened while disabled.
C21_DisablingKeepsThePress ==
  lastEvent = "setEnabled" =>
    /\ down = downBefore
    /\ (downBefore /\ ~enabled) => interactionState = "disabled-pressed"
    /\ interactionState = Derive(kind, Over, down, enabled, toggleProperty)
    /\ firedNow = 0
    /\ toggleProperty = valueBefore

\* a button disabled while it was down has been enabled again, still down
C21_Witness ==
  /\ lastEvent = "setEnabled"
  /\ ~enabledBefore /\ enabled
  /\ stateBefore = "disabled-pressed"
  /\ down
  /\ interactionState = "pressed"

\* C22: a sticky toggle button whose cell holds valueDown is pressed when
\* enabled and disabled-pressed when disabled, whatever over and down are.
C22_StuckDownLooksPressed ==
  (kind = "sticky" /\ toggleProperty = ValueDown) =>
    interactionState = IF enabled THEN "pressed" ELSE "disabled-pressed"

\* a sticky toggle that was pressed and released shows pressed with no pointer
\* in contact
C22_Witness ==
  /\ kind = "sticky"
  /\ toggleProperty = ValueDown
  /\ toggleInit = ValueUp
  /\ ~down /\ ~Over /\ overCount = 0
  /\ enabled
  /\ interactionState = "pressed"

\* C23 as stated: pressed only if down is true, disabled-pressed only if
\* enabled is false and down is true.
C23_PressedRequiresDown ==
  /\ interactionState = "pressed" => down
  /\ interactionState = "disabled-pressed" => (~enabled /\ down)

\* C23 amended: pressed only if down is true or the button is a sticky toggle
\* whose cell holds valueDown; disabled-pressed only if, besides, enabled is
\* false.
C23_PressedRequiresDownOrStuck ==
  /\ interactionState = "pressed" =>
       (enabled /\ (down \/ (kind = "sticky" /\ toggleProperty = ValueDown)))
  /\ interactionState = "disabled-pressed" =>
       (~enabled /\ (down \/ (kind = "sticky" /\ toggleProperty = ValueDown)))

\* a sticky toggle stuck down has been disabled with no pointer in contact
C23_Witness ==
  /\ kind = "sticky"
  /\ toggleProperty = ValueDown
  /\ lastEvent = "setEnabled"
  /\ ~enabled /\ ~down
  /\ interactionState = "disabled-pressed"

DirectAppearance(s, st, state) ==
  ApplyAppearance(s, st, InitialAppearance(s, st), state)

\* C25: the appearance applied by the 3D and the flat strategy is a function
\* of the current interaction state only: background fill and stroke, overlay
\* fill and stroke and content opacity are what they would be had the state
\* been entered directly from construction.
C25_AppearanceFunctionOfState ==
  (strategy \in {"threeD", "flat"} /\ ~viewDisposed) =>
    appearance = DirectAppearance(strategy, stroke, interactionState)

\* C26: when a fire listener runs and when an event returns, the interaction
\* state is the derivation of the current flags and bound value, the view's
\* listeners have run for that state, and the view's appearance is the one
\* for that state.
C26_NoStaleDerivedState ==
  /\ interactionState = Derive(kind, Over, down, enabled, toggleProperty)
  /\ (firedNow = 1 /\ lastEvent \in {"down", "up"}) =>
       stateAtFire = Derive(kind, Over, down, enabled, valueBefore)
  /\ ~viewDisposed =>
       /\ appliedState = interactionState
       /\ appearance = DirectAppearance(strategy, stroke, interactionState)

\* C27: a fire action that throws leaves the model as a fire action that
\* returns does: down is true after a fire-on-down press, false after a
\* fire-on-up release, and the interaction state is the derivation of the
\* flags.
C27_ThrowingActionLeavesModelConsistent ==
  thrown =>
    /\ firedNow = 1
    /\ lastEvent = "down" => (fireOnDown /\ down)
    /\ lastEvent = "up" => (~fireOnDown /\ ~down)
    /\ lastEvent \in {"down", "up"}
    /\ interactionState = Derive(kind, Over, down, enabled, toggleProperty)

\* the fire action of a fire-on-down press threw
C27_Witness ==
  /\ thrown
  /\ lastEvent = "down"
  /\ fireOnDown
  /\ ~downBefore /\ down
  /\ interactionState = "pressed"

\* C28: setEnabled(v) while enabled is v already causes no transition of the
\* interaction state and no run of the view's listeners; no setEnabled causes
\* more than one.
C28_SetEnabledIdempotent ==
  lastEvent = "setEnabled" =>
    /\ updatesNow <= 1
    /\ enabled = enabledBefore =>
         (updatesNow = 0 /\ interactionState = stateBefore)

\* setEnabled(true) on a button that is enabled and hovered
C28_Witness ==
  /\ lastEvent = "setEnabled"
  /\ enabled /\ enabledBefore
  /\ stateBefore = "over"
  /\ interactionState = "over"
  /\ updatesNow = 0

\* C29: disposing a toggle or sticky toggle button releases its model and its
\* view and leaves the cell's value unchanged; no pointer event after the
\* disposal changes the cell.
C29_DisposeReleasesModelAndView ==
  (kind \in {"toggle", "sticky"} /\ (modelDisposed \/ viewDisposed)) =>
    /\ modelDisposed
    /\ viewDisposed
    /\ toggleProperty = valueBefore


\* ---------------------------------------------------------------------------
\* Combo box: construction
\* ---------------------------------------------------------------------------

\* no combo box b exists: nothing is linked, registered or shown for it
NothingCreated(b) ==
  /\ ~constructed[b]
  /\ ~propertyLinked[b]
  /\ ~enabledLinked[b]
  /\ ~listVisible[b]
  /\ \A i \in 1..Len(displayListeners) : displayListeners[i] # b

\* the call made last for b asked for a disabledOpacity outside (0, 1)
InvalidOpacityAsked(b) ==
  /\ opacityAsked[b] # NotAsked
  /\ ~(opacityAsked[b] > 0 /\ opacityAsked[b] < OpacityUnit)

\* C30 as stated: a constructor call with a disabledOpacity that is not
\* strictly between 0 and 1 fails, and no combo box, popup list or
\* subscription is created.
C30_InvalidOpacityRejected ==
  \A b \in Boxes :
    InvalidOpacityAsked(b) => (rejected[b] /\ NothingCreated(b))

\* C30 amended: in a build with assertions enabled, a constructor call with a
\* disabledOpacity that is not strictly between 0 and 1 fails, and no combo
\* box, popup list or subscription is created.
C30_InvalidOpacityRejectedByAssertion ==
  \A b \in Boxes :
    (assertionsEnabled /\ InvalidOpacityAsked(b)) =>
      (rejected[b] /\ NothingCreated(b))

\* with assertions enabled a disabledOpacity of 1 was refused for one combo
\* box while the other one is constructed and open
C30_Witness ==
  \E b \in Boxes, other \in Boxes :
    /\ assertionsEnabled
    /\ opacityAsked[b] = OpacityUnit
    /\ rejected[b]
    /\ NothingCreated(b)
    /\ other # b
    /\ constructed[other]
    /\ listVisible[other]


\* ---------------------------------------------------------------------------
\* On/off switch: delivery order, rest position, toggling while dragging
\* ---------------------------------------------------------------------------

\* C32: for a press-drag-release gesture on the thumb, the value the property
\* has after the release is the same whether the drag handler's end callback
\* runs before or after the button listener's fire/up callback.
C32_ReleaseOrderIrrelevant ==
  (pointerListeners = <<"drag", "button">> /\ thumbMoved) =>
    ReleaseAll(SwitchState, <<"drag", "button">>).on
      = ReleaseAll(SwitchState, <<"button", "drag">>).on

\* the thumb at its end and the track filled for the property's value
AtRest ==
  /\ thumbLeft = IF onProperty THEN TrackWidth - ThumbWidth ELSE 0
  /\ trackFill = IF onProperty THEN "on" ELSE "off"
  /\ ~dragged

\* C33: whenever no gesture is in progress, initially and after every
\* release, the thumb rests at the end and the track has the fill of the
\* property's value, and the dragged flag is false.
C33_RestsAtPropertyValue ==
  pointerListeners = <<>> => AtRest

\* C34: with toggleWhileDragging, after every translate step the property is
\* the value the thumb position represents, and the crossedMidpoint flag is
\* latched once a step has left the thumb on the other side of the midpoint
\* than the value from before the drag.
C34_TogglesWhileDragging ==
  (toggleWhileDragging /\ swLast = "move") =>
    /\ onProperty = ThumbPositionToValue(thumbLeft)
    /\ everOffSide => thumbCrossedMidpoint

\* a drag step has taken the thumb across the midpoint and the property with it
C34_Witness ==
  /\ toggleWhileDragging
  /\ swLast = "move"
  /\ onProperty # preValue
  /\ onProperty = ThumbPositionToValue(thumbLeft)
  /\ thumbCrossedMidpoint


\* ---------------------------------------------------------------------------
\* Combo box: focus record, ordering of a selection, enabling
\* ---------------------------------------------------------------------------

\* C31: the focused-item record refers to an item only while the popup is
\* open: while the popup is closed no item is recorded as focused.
C31_FocusRecordOnlyWhileOpen ==
  \A b \in Boxes : ~listVisible[b] => focusedItem[b] = 0

\* C35: when a pointer release on an item changes the property, the popup is
\* hidden and the dismiss listener removed at the moment of the change.
C35_ClosedBeforePropertyChanges ==
  (cbLast.op = "itemUp" /\ property # cbBefore.value) =>
    /\ seenAtChange.box = cbLast.box
    /\ ~seenAtChange.visible
    /\ ~seenAtChange.registered

\* a pointer release on an item of an open popup has changed the property
C35_Witness ==
  /\ cbLast.op = "itemUp"
  /\ cbBefore.visible[cbLast.box]
  /\ property[cbLast.box] # cbBefore.value[cbLast.box]
  /\ seenAtChange.box = cbLast.box
  /\ ~seenAtChange.visible

\* C36: a pointer-down on an item of the open popup does not reach the
\* dismiss listener and closes nothing; the popup is open until the
\* pointer-up on an item, which closes it.
C36_ItemDownNeverCloses ==
  /\ cbLast.op = "itemDown" =>
       /\ listVisible[cbLast.box]
       /\ listVisible = cbBefore.visible
       /\ displayListeners = cbBefore.listeners
       /\ enableClickToDismissListener = cbBefore.enable
       /\ ignoredDowns = cbBefore.ignored
  /\ cbLast.op = "itemUp" =>
       (cbBefore.visible[cbLast.box] /\ ~listVisible[cbLast.box])

\* a pointer went down on an item while the dismiss listener was armed
C36_Witness ==
  /\ cbLast.op = "itemDown"
  /\ cbBefore.enable[cbLast.box]
  /\ Registrations(cbLast.box) = 1
  /\ listVisible[cbLast.box]

\* C37: activating the button while its popup is open opens nothing and
\* registers nothing: an accessibility click closes the popup and focuses
\* the button, a pointer press with the dismiss listener armed leaves the
\* popup closed.
C37_NoSecondOpen ==
  (cbLast.op \in {"buttonDown", "buttonA11yClick"}
     /\ cbBefore.visible[cbLast.box]) =>
    /\ Registrations(cbLast.box) <= 1
    /\ cbLast.op = "buttonA11yClick" =>
         /\ ~listVisible[cbLast.box]
         /\ Registrations(cbLast.box) = 0
         /\ focus = ButtonFocus(cbLast.box)
    /\ (cbLast.op = "buttonDown" /\ cbBefore.enable[cbLast.box]) =>
         /\ ~listVisible[cbLast.box]
         /\ Registrations(cbLast.box) = 0

\* the button of an open and armed popup was pressed
C37_Witness ==
  /\ cbLast.op = "buttonDown"
  /\ cbBefore.visible[cbLast.box]
  /\ cbBefore.enable[cbLast.box]
  /\ ~listVisible[cbLast.box]

\* C38: the button displays the first item in list order whose value is the
\* property's current value.
C38_ButtonShowsFirstMatch ==
  \A b \in Boxes : buttonItem[b] = FirstMatch(b)

\* the property was set from outside to a value two items have
C38_Witness ==
  /\ cbLast.op = "setProperty"
  /\ property[cbLast.box] = ItemValues[Len(ItemValues)]
  /\ cbBefore.shown[cbLast.box] = 2
  /\ buttonItem[cbLast.box] = 1

\* C39: while enabledProperty of a combo box is false, no input through its
\* button or the items of its list changes the bound property.
C39_DisabledChangesNothing ==
  (cbLast.op \in {"buttonDown", "buttonA11yClick", "itemDown", "itemUp",
                  "itemA11yClick"}
     /\ ~comboEnabled[cbLast.box]) =>
    property = cbBefore.value

====
